---- MODULE Spec2Model ----
(***************************************************************************)
(* Model of api/generate.js: the QuickFix request handler.                 *)
(*                                                                         *)
(* The handler is an async function with one suspension point, the await   *)
(* of model.generateContent.  It is modelled by three actions: the         *)
(* synchronous prefix up to the await (handler), and the two ways the      *)
(* await can end (generateContentResolves, generateContentRejects).        *)
(*                                                                         *)
(* JavaScript strings that the code only compares or passes on are TLA+    *)
(* strings.  Strings the code edits are sequences of pieces: a header or   *)
(* query value is a sequence of chunks (so that replace("Bearer ", "")     *)
(* is computed), and the upstream text is a sequence of tokens (so that    *)
(* the two regex replacements, trim and JSON.parse are computed).          *)
(***************************************************************************)
EXTENDS Integers, Sequences, FiniteSets, TLC

VARIABLES API_KEY, GEMINI_API_KEY, genAI, req, pc, res, calls, fullPrompt,
          upstream, thrown

vars ==
  <<API_KEY, GEMINI_API_KEY, genAI, req, pc, res, calls, fullPrompt, upstream,
    thrown>>

(***************************************************************************)
(* Bounds of the model.                                                    *)
(***************************************************************************)
\* longest steps array the upstream object carries
MaxSteps == 2
\* most fields in which an upstream object differs from a complete answer
MaxDeviations == 3
\* most whitespace tokens put on each side of the upstream text
MaxPad == 1

(***************************************************************************)
(* JavaScript values.                                                      *)
(***************************************************************************)
\* an optional string (header, query parameter, env variable, body field):
\* undefined, or a string given as its sequence of chunks
Undefined == [defined |-> FALSE, chunks |-> <<>>]
Str(cs) == [defined |-> TRUE, chunks |-> cs]

\* JavaScript truthiness of an optional string: undefined and "" are falsy
TruthyStr(v) == v.defined /\ v.chunks # <<>>

\* a || b on optional strings
OrStr(a, b) == IF TruthyStr(a) THEN a ELSE b

\* a value inside parsed JSON
\* (undefined, null, a string, an array of strings)
JUndef == [kind |-> "undefined", s |-> "", a |-> <<>>]
JNull == [kind |-> "null", s |-> "", a |-> <<>>]
JStr(x) == [kind |-> "string", s |-> x, a |-> <<>>]
JArr(x) == [kind |-> "array", s |-> "", a |-> x]

\* JavaScript truthiness of a JSON value
Truthy(v) ==
  CASE v.kind = "undefined" -> FALSE
    [] v.kind = "null" -> FALSE
    [] v.kind = "string" -> v.s # ""
    [] OTHER -> TRUE

\* a || b on JSON values
Or(a, b) == IF Truthy(a) THEN a ELSE b

\* Array.isArray
IsArray(v) == v.kind = "array"

FieldNames == {"title", "summary", "steps", "tips", "timeEstimate", "difficulty"}

NoFields == [f \in FieldNames |-> JUndef]

\* what JSON.parse can return: an object with some of the six fields the
\* handler reads (an absent field reads as undefined), or a non-object
Obj(fs) == [kind |-> "object", fields |-> fs]
NonObj(k) == [kind |-> k, fields |-> NoFields]

\* parsedResponse[field]: undefined on a primitive or an array
Get(parsed, field) ==
  IF parsed.kind = "object" THEN parsed.fields[field] ELSE JUndef

(***************************************************************************)
(* Requests and configuration.                                             *)
(***************************************************************************)
\* the value the operator configured as API_KEY, and another value
Secret == <<"secret">>
Wrong == <<"wrong">>

Methods == {"GET", "POST", "PUT"}

\* req.body: undefined when the request carries no body, else the parsed
\* JSON object, of which the handler reads only prompt
BodyUndefined == [kind |-> "undefined", prompt |-> Undefined]
BodyObject(p) == [kind |-> "object", prompt |-> p]

Bodies ==
  {BodyUndefined, BodyObject(Undefined), BodyObject(Str(<<>>)),
   BodyObject(Str(<<"p">>))}

\* the requests of the model: a GET request carries no body and any of the
\* query parameters; the others carry any body, and of the query parameters
\* api_key and prompt
Requests ==
  {r \in [method : Methods,
          xApiKey : {Undefined, Str(Wrong), Str(Secret)},
          authorization : {Undefined, Str(<<"Bearer ", "wrong">>),
                           Str(<<"Bearer ", "secret">>), Str(<<"secret">>)},
          queryApiKey : {Undefined, Str(Secret)},
          queryPrompt : {Undefined, Str(<<>>), Str(<<"p">>)},
          queryQ : {Undefined, Str(<<"q">>)},
          body : Bodies] :
     IF r.method = "GET" THEN r.body = BodyUndefined
     ELSE r.queryQ = Undefined /\ r.queryPrompt # Str(<<>>)}

\* the value of req before a request has arrived
NoRequest ==
  [method |-> "", xApiKey |-> Undefined, authorization |-> Undefined,
   queryApiKey |-> Undefined, queryPrompt |-> Undefined, queryQ |-> Undefined,
   body |-> BodyUndefined]

\* process.env.X: unset, or set
EnvValues == {Undefined, Str(Secret)}

MODEL_ID == "gemini-2.5-flash-preview-05-20"

(***************************************************************************)
(* The handler up to the upstream call.                                    *)
(***************************************************************************)
\* the state of res before a response is sent
NoResponse == [status |-> 0, body |-> [sent |-> FALSE]]

Respond(status, body) == [status |-> status, body |-> body]

\* s.replace("Bearer ", ""): the first occurrence is removed
RECURSIVE ReplaceBearer(_)
ReplaceBearer(cs) ==
  IF cs = <<>> THEN <<>>
  ELSE IF Head(cs) = "Bearer " THEN Tail(cs)
  ELSE <<Head(cs)>> \o ReplaceBearer(Tail(cs))

\* req.headers["authorization"]?.replace("Bearer ", "")
BearerToken(h) == IF h.defined THEN Str(ReplaceBearer(h.chunks)) ELSE Undefined

\* providedApiKey: the first truthy of the three channels, whatever the method
ProvidedApiKey(r) ==
  OrStr(r.xApiKey, OrStr(BearerToken(r.authorization), r.queryApiKey))

\* the prompt of a request whose body can be read
UserPrompt(r) ==
  IF r.method = "POST" THEN r.body.prompt
  ELSE OrStr(r.queryPrompt, r.queryQ)

\* req.body.prompt on an undefined body raises a TypeError, outside the try
PromptThrows(r) == r.method = "POST" /\ r.body.kind = "undefined"

FullPrompt(userPrompt) ==
  <<"SYSTEM_PROMPT", "\n\nUser: ">> \o userPrompt.chunks \o <<"\nResponse:">>

MethodNotAllowed ==
  Respond(405, [error |-> "Method not allowed. Use GET or POST."])

ApiKeyNotConfigured ==
  Respond(500, [error |-> "API_KEY is not configured on server."])

ApiKeyRequired ==
  Respond(401,
    [error |-> "API key is required.",
     methods |->
       [POST |-> "Provide in 'x-api-key' header or 'Authorization: Bearer <key>' header",
        GET |-> "Provide in 'api_key' query parameter, 'x-api-key' header, or 'Authorization: Bearer <key>' header"]])

InvalidApiKey == Respond(403, [error |-> "Invalid API key."])

GeminiNotConfigured ==
  Respond(500, [error |-> "GEMINI_API_KEY is not configured."])

PromptRequired ==
  Respond(400,
    [error |-> "Prompt is required.",
     usage |->
       [POST |-> "Include 'prompt' in request body JSON",
        GET |-> "Include 'prompt' or 'q' as query parameter"]])

\* a handler that accepts any credential that is present
KeyNeverRejected(provided, apiKey) == FALSE

\* providedApiKey !== API_KEY
KeyRejected(provided, apiKey) == provided # apiKey

\* the outcome of the handler's synchronous prefix: a response, a TypeError
\* that leaves the handler, or the upstream call
Entry(r, apiKey, geminiKey, client) ==
  IF r.method # "POST" /\ r.method # "GET"
    THEN [kind |-> "respond", res |-> MethodNotAllowed, prompt |-> <<>>]
  ELSE IF ~TruthyStr(apiKey)
    THEN [kind |-> "respond", res |-> ApiKeyNotConfigured, prompt |-> <<>>]
  ELSE IF ~TruthyStr(ProvidedApiKey(r))
    THEN [kind |-> "respond", res |-> ApiKeyRequired, prompt |-> <<>>]
  ELSE IF KeyRejected(ProvidedApiKey(r), apiKey)
    THEN [kind |-> "respond", res |-> InvalidApiKey, prompt |-> <<>>]
  ELSE IF ~TruthyStr(geminiKey) \/ ~client
    THEN [kind |-> "respond", res |-> GeminiNotConfigured, prompt |-> <<>>]
  ELSE IF PromptThrows(r)
    THEN [kind |-> "throw", res |-> NoResponse, prompt |-> <<>>]
  ELSE IF ~TruthyStr(UserPrompt(r))
    THEN [kind |-> "respond", res |-> PromptRequired, prompt |-> <<>>]
  ELSE [kind |-> "call", res |-> NoResponse, prompt |-> FullPrompt(UserPrompt(r))]

(***************************************************************************)
(* The upstream text.                                                      *)
(***************************************************************************)
\* A text is a sequence of tokens: "fence" is three backticks, "json" the
\* letters json, "nl" a newline, "sp" a blank, "prose" words that are not
\* JSON, and "value" the serialisation of one JSON value.
Tok(t) == [tok |-> t, value |-> NonObj("undefined")]
Val(v) == [tok |-> "value", value |-> v]

IsSpace(t) == t.tok \in {"nl", "sp"}

\* the text after a match of the fence pattern: the optional newline goes too
DropNewline(t) == IF t # <<>> /\ Head(t).tok = "nl" THEN Tail(t) ELSE t

\* text.replace(/```json\n?/g, "")
RECURSIVE StripJsonFences(_)
StripJsonFences(t) ==
  IF t = <<>> THEN <<>>
  ELSE IF Len(t) >= 2 /\ t[1].tok = "fence" /\ t[2].tok = "json"
    THEN StripJsonFences(DropNewline(Tail(Tail(t))))
  ELSE <<Head(t)>> \o StripJsonFences(Tail(t))

\* text.replace(/```\n?/g, "")
RECURSIVE StripFences(_)
StripFences(t) ==
  IF t = <<>> THEN <<>>
  ELSE IF Head(t).tok = "fence" THEN StripFences(DropNewline(Tail(t)))
  ELSE <<Head(t)>> \o StripFences(Tail(t))

RECURSIVE TrimStart(_)
TrimStart(t) ==
  IF t # <<>> /\ IsSpace(Head(t)) THEN TrimStart(Tail(t)) ELSE t

RECURSIVE TrimEnd(_)
TrimEnd(t) ==
  IF t # <<>> /\ IsSpace(t[Len(t)]) THEN TrimEnd(SubSeq(t, 1, Len(t) - 1)) ELSE t

\* text.trim()
Trim(t) == TrimEnd(TrimStart(t))

\* a clean-up that forgets the pattern of the fence tagged json
CleanTextUntaggedOnly(text) == Trim(StripFences(text))

\* cleanText
CleanText(text) == Trim(StripFences(StripJsonFences(text)))

\* JSON.parse: one JSON value, with white space allowed around it; anything
\* else is a SyntaxError
JSONParse(t) ==
  LET core == Trim(t)
  IN IF Len(core) = 1 /\ core[1].tok = "value"
       THEN [ok |-> TRUE, value |-> core[1].value]
       ELSE [ok |-> FALSE, value |-> NonObj("undefined")]

\* the upstream outputs of the model
StepsArrays == UNION {[1..n -> {"a"}] : n \in 0..MaxSteps}

\* an answer that follows the schema of the system prompt
Complete ==
  [title |-> JStr("T"), summary |-> JStr("S"), steps |-> JArr(<<"a">>),
   tips |-> JArr(<<"t">>), timeEstimate |-> JStr("5 minutes"),
   difficulty |-> JStr("easy")]

Deviations(fs) == Cardinality({f \in FieldNames : fs[f] # Complete[f]})

Objects ==
  {Obj(fs) : fs \in
     {gs \in
        [title : {JUndef, JStr(""), JStr("T")},
         summary : {JUndef, JStr("S")},
         steps : {JUndef, JStr("do it")} \cup {JArr(a) : a \in StepsArrays},
         tips : {JUndef, JNull, JStr("a tip"), JArr(<<"t">>)},
         timeEstimate : {JUndef, JStr(""), JStr("5 minutes")},
         difficulty : {JUndef, JStr("easy"), JStr("extreme")}] :
        Deviations(gs) <= MaxDeviations}}

NonObjects == {NonObj(k) : k \in {"null", "number", "string", "array", "boolean"}}

Contents ==
  {<<>>, <<Tok("prose")>>} \cup {<<Val(v)>> : v \in Objects \cup NonObjects}

RECURSIVE Repeat(_, _)
Repeat(t, n) == IF n = 0 THEN <<>> ELSE <<t>> \o Repeat(t, n - 1)

FencedJson(c) ==
  <<Tok("fence"), Tok("json"), Tok("nl")>> \o c \o <<Tok("nl"), Tok("fence")>>

Fenced(c) == <<Tok("fence"), Tok("nl")>> \o c \o <<Tok("nl"), Tok("fence")>>

Padded(c, n) == Repeat(Tok("sp"), n) \o c \o Repeat(Tok("nl"), n)

Texts ==
  UNION {{c, FencedJson(c), Fenced(c), <<Tok("prose")>> \o FencedJson(c)}
           \cup {Padded(c, n) : n \in 1..MaxPad} : c \in Contents}

\* response.promptFeedback?.blockReason, "" when there is none
BlockReasons == {"", "SAFETY"}

\* what the upstream call can resolve to: any text without a block reason,
\* and no text or prose with one
Completions ==
  {[text |-> t, blockReason |-> ""] : t \in Texts}
    \cup {[text |-> t, blockReason |-> b] :
            t \in {<<>>, <<Tok("prose")>>}, b \in BlockReasons}

ErrorMessages == {"fetch failed", "quota exceeded"}

(***************************************************************************)
(* The handler after the upstream call.                                    *)
(***************************************************************************)
RequiredFields == <<"title", "summary", "steps">>

\* requiredFields.filter((field) => !parsedResponse[field])
MissingFields(parsed) ==
  SelectSeq(RequiredFields, LAMBDA f : ~Truthy(Get(parsed, f)))

\* fields.join(", ")
RECURSIVE Join(_)
Join(fields) ==
  IF fields = <<>> THEN ""
  ELSE IF Len(fields) = 1 THEN fields[1]
  ELSE fields[1] \o ", " \o Join(Tail(fields))

\* x?.length || 0
LengthOrZero(v) ==
  CASE v.kind = "array" -> Len(v.a)
    [] v.kind = "string" -> Len(v.s)
    [] OTHER -> 0

\* the response when the upstream reported a block reason and no text
BlockedResponse(reason) ==
  Respond(400,
    [success |-> FALSE, error |-> "Content generation blocked", reason |-> reason])

\* the response when JSON.parse raised
ParseFailureResponse(text) ==
  Respond(200,
    [success |-> TRUE,
     data |->
       [title |-> JStr("QuickFix Response"),
        summary |-> JStr("Generated response"),
        content |-> text,
        steps |-> JArr(<<>>),
        tips |-> JArr(<<>>),
        timeEstimate |-> JStr("Unknown"),
        difficulty |-> JStr("unknown")],
     metadata |->
       [timestamp |-> "now", model |-> MODEL_ID,
        parseError |-> "Response was not valid JSON"]])

\* steps || [] in place of the Array.isArray test
PartialStepsUnchecked(parsed) == Or(Get(parsed, "steps"), JArr(<<>>))

\* the data of the response when a required field is missing
PartialSteps(parsed) ==
  IF IsArray(Get(parsed, "steps")) THEN Get(parsed, "steps") ELSE JArr(<<>>)

PartialTips(parsed) ==
  IF IsArray(Get(parsed, "tips")) THEN Get(parsed, "tips") ELSE JArr(<<>>)

PartialContent(text, cleanText) == text

MissingFieldsResponse(parsed, text, cleanText, missingFields) ==
  Respond(200,
    [success |-> TRUE,
     data |->
       [title |-> Or(Get(parsed, "title"), JStr("QuickFix Response")),
        summary |-> Or(Get(parsed, "summary"), JStr("Generated response")),
        steps |-> PartialSteps(parsed),
        tips |-> PartialTips(parsed),
        timeEstimate |-> Or(Get(parsed, "timeEstimate"), JStr("Unknown")),
        difficulty |-> Or(Get(parsed, "difficulty"), JStr("unknown")),
        content |-> PartialContent(text, cleanText)],
     metadata |->
       [timestamp |-> "now", model |-> MODEL_ID,
        warning |-> "Missing fields: " \o Join(missingFields)]])

\* the data of the response when no required field is missing
FullTips(parsed) == Or(Get(parsed, "tips"), JArr(<<>>))

StepCount(parsed) == LengthOrZero(Get(parsed, "steps"))

StructuredResponse(parsed) ==
  Respond(200,
    [success |-> TRUE,
     data |->
       [title |-> Get(parsed, "title"),
        summary |-> Get(parsed, "summary"),
        steps |-> Get(parsed, "steps"),
        tips |-> FullTips(parsed),
        timeEstimate |-> Or(Get(parsed, "timeEstimate"), JStr("Unknown")),
        difficulty |-> Or(Get(parsed, "difficulty"), JStr("unknown"))],
     metadata |->
       [timestamp |-> "now", model |-> MODEL_ID,
        stepCount |-> StepCount(parsed)]])

\* the response of the outer catch
CatchResponse(message) ==
  Respond(500,
    [success |-> FALSE, error |-> "Failed to generate response",
     details |-> message])

\* parsedResponse[field] on null raises this TypeError inside the outer try
NullMessage == "Cannot read properties of null (reading 'title')"

\* the response to a parsed value
Validated(parsed, text, cleanText) ==
  IF parsed.kind = "null" THEN CatchResponse(NullMessage)
  ELSE IF Len(MissingFields(parsed)) > 0
    THEN MissingFieldsResponse(parsed, text, cleanText, MissingFields(parsed))
  ELSE StructuredResponse(parsed)

\* the handler from the end of the await to its response
Resume(text, blockReason) ==
  LET cleanText == CleanText(text)
      parsed == JSONParse(cleanText)
  IN IF text = <<>> /\ blockReason # "" THEN BlockedResponse(blockReason)
     ELSE IF ~parsed.ok THEN ParseFailureResponse(text)
     ELSE Validated(parsed.value, text, cleanText)

(***************************************************************************)
(* The state machine.                                                      *)
(***************************************************************************)
\* what the await of generateContent has produced so far
NotCalled == [state |-> "none", text |-> <<>>, blockReason |-> "", message |-> ""]

\* module load: the two environment variables are read and the client is
\* constructed when GEMINI_API_KEY is set
Init ==
  /\ API_KEY \in EnvValues
  /\ GEMINI_API_KEY \in EnvValues
  /\ genAI = TruthyStr(GEMINI_API_KEY)
  /\ req = NoRequest
  /\ pc = "idle"
  /\ res = NoResponse
  /\ calls = 0
  /\ fullPrompt = <<>>
  /\ upstream = NotCalled
  /\ thrown = ""

\* a request arrives and the handler runs to its first response, to the
\* TypeError that ends it, or to the await of the upstream call
handler(r) ==
  /\ pc = "idle"
  /\ LET o == Entry(r, API_KEY, GEMINI_API_KEY, genAI)
     IN /\ req' = r
        /\ res' = o.res
        /\ fullPrompt' = o.prompt
        /\ calls' = IF o.kind = "call" THEN calls + 1 ELSE calls
        /\ pc' = CASE o.kind = "call" -> "awaiting"
                   [] o.kind = "throw" -> "threw"
                   [] OTHER -> "done"
        /\ thrown' = IF o.kind = "throw"
                       THEN "Cannot read properties of undefined (reading 'prompt')"
                       ELSE thrown
  /\ UNCHANGED <<API_KEY, GEMINI_API_KEY, genAI, upstream>>

\* the upstream call returns a text and possibly a block reason
generateContentResolves(text, blockReason) ==
  /\ pc = "awaiting"
  /\ upstream' = [state |-> "resolved", text |-> text,
                  blockReason |-> blockReason, message |-> ""]
  /\ res' = Resume(text, blockReason)
  /\ pc' = "done"
  /\ UNCHANGED <<API_KEY, GEMINI_API_KEY, genAI, req, calls, fullPrompt, thrown>>

\* a handler that calls the upstream again when the call raises
generateContentRetries(message) ==
  /\ pc = "awaiting"
  /\ calls < 2
  /\ upstream' = [state |-> "rejected", text |-> <<>>, blockReason |-> "",
                  message |-> message]
  /\ calls' = calls + 1
  /\ UNCHANGED <<API_KEY, GEMINI_API_KEY, genAI, req, pc, res, fullPrompt, thrown>>

\* the upstream call raises
generateContentRejects(message) ==
  /\ pc = "awaiting"
  /\ upstream' = [state |-> "rejected", text |-> <<>>, blockReason |-> "",
                  message |-> message]
  /\ res' = CatchResponse(message)
  /\ pc' = "done"
  /\ UNCHANGED <<API_KEY, GEMINI_API_KEY, genAI, req, calls, fullPrompt, thrown>>

\* the three steps, over the inputs of the model
Request == pc = "idle" /\ \E r \in Requests : handler(r)

Resolve ==
  /\ pc = "awaiting"
  /\ \E c \in Completions : generateContentResolves(c.text, c.blockReason)

Reject ==
  /\ pc = "awaiting"
  /\ \E message \in ErrorMessages : generateContentRejects(message)

Next == Request \/ Resolve \/ Reject

Spec == Init /\ [][Next]_vars

(***************************************************************************)
(* Vocabulary of the properties.                                           *)
(***************************************************************************)
\* the handler has run its synchronous prefix
Entered == pc # "idle"

\* the upstream call returned and the content-block condition does not apply
Returned ==
  /\ upstream.state = "resolved"
  /\ ~(upstream.text = <<>> /\ upstream.blockReason # "")

\* the JSON value in the upstream text, if it holds exactly one
Answer ==
  LET vs == SelectSeq(upstream.text, LAMBDA t : t.tok = "value")
  IN IF Len(vs) = 1 THEN vs[1].value ELSE NonObj("undefined")

\* the upstream text is one JSON object, bare, in a fence (tagged json or
\* not), or with white space around it
ReturnedObject ==
  /\ Returned
  /\ Answer.kind = "object"
  /\ LET c == <<Val(Answer)>>
     IN upstream.text \in
          {c, FencedJson(c), Fenced(c)} \cup {Padded(c, n) : n \in 1..MaxPad}

\* the upstream object has the field
Has(f) == Answer.fields[f] # JUndef

\* the upstream object has the field with a truthy value
HasTruthy(f) == Truthy(Answer.fields[f])

Required == {"title", "summary", "steps"}

\* the defaults of the six fields
Default ==
  [title |-> JStr("QuickFix Response"), summary |-> JStr("Generated response"),
   steps |-> JArr(<<>>), tips |-> JArr(<<>>), timeEstimate |-> JStr("Unknown"),
   difficulty |-> JStr("unknown")]

\* the warning that names exactly the fields of the set
WarningNaming(S) ==
  CASE S = {"title"} -> "Missing fields: title"
    [] S = {"summary"} -> "Missing fields: summary"
    [] S = {"steps"} -> "Missing fields: steps"
    [] S = {"title", "summary"} -> "Missing fields: title, summary"
    [] S = {"title", "steps"} -> "Missing fields: title, steps"
    [] S = {"summary", "steps"} -> "Missing fields: summary, steps"
    [] S = {"title", "summary", "steps"} -> "Missing fields: title, summary, steps"
    [] OTHER -> "Missing fields: "

\* the response is a success: status 200 with success: true
Success == res.status = 200 /\ res.body.success = TRUE

(***************************************************************************)
(* Properties of the responses.                                            *)
(***************************************************************************)
\* C1: every response sent with status 200 has a data object in which both
\* steps and tips are present and are arrays, whatever the upstream returned.
C1_StepsAndTipsAreArrays ==
  res.status = 200 =>
    /\ "data" \in DOMAIN res.body
    /\ {"steps", "tips"} \subseteq DOMAIN res.body.data
    /\ IsArray(res.body.data.steps)
    /\ IsArray(res.body.data.tips)

\* the upstream text does not parse, or parses to a value that is not an
\* object carrying title, summary and steps
Nonconforming ==
  LET parsed == JSONParse(CleanText(upstream.text))
  IN \/ ~parsed.ok
     \/ parsed.value.kind # "object"
     \/ \E f \in Required : parsed.value.fields[f] = JUndef

\* C2: whenever the upstream call returns text and the content-block
\* condition does not apply, a text that fails to parse or parses to a value
\* that does not satisfy the schema (a JSON value that is not an object
\* included) is answered with status 200 and success: true.
C2_NonconformanceIsSuccess ==
  (pc = "done" /\ Returned /\ Nonconforming) => Success

\* C8: in every response sent with status 200, data.difficulty is one of
\* easy, medium, hard, unknown.
C8_DifficultyIsOneOfFour ==
  res.status = 200 =>
    res.body.data.difficulty \in
      {JStr("easy"), JStr("medium"), JStr("hard"), JStr("unknown")}

(***************************************************************************)
(* Properties of the validation.                                           *)
(***************************************************************************)
\* the request carries the header channel with a value
HeaderKeyPresent(h) == h.defined /\ h.chunks # <<>>

\* the key an Authorization header of the form 'Bearer <key>' carries
BearerKey(h) ==
  IF h.defined /\ Len(h.chunks) = 2 /\ h.chunks[1] = "Bearer "
    THEN Str(<<h.chunks[2]>>)
    ELSE Undefined

\* C3: the credential is taken from the first present channel in the order
\* x-api-key header, Authorization: Bearer <key>, api_key query parameter, and
\* the query parameter counts only on GET: a POST whose only credential is a
\* correct api_key query parameter gets 401, and a request whose x-api-key is
\* present but wrong gets 403 even if a later channel carries the right key.
C3_QueryKeyOnlyOnGet ==
  (Entered /\ req.method \in {"GET", "POST"} /\ TruthyStr(API_KEY)) =>
    /\ ( /\ req.method = "POST"
         /\ ~HeaderKeyPresent(req.xApiKey)
         /\ ~HeaderKeyPresent(req.authorization)
         /\ req.queryApiKey = API_KEY ) => res.status = 401
    /\ ( /\ HeaderKeyPresent(req.xApiKey)
         /\ req.xApiKey # API_KEY ) => res.status = 403
    /\ ( /\ ~HeaderKeyPresent(req.xApiKey)
         /\ BearerKey(req.authorization).defined
         /\ BearerKey(req.authorization) # API_KEY ) => res.status = 403

\* the request carries a task text: a non-empty prompt in the body of a
\* POST, a non-empty prompt or q query parameter of a GET
HasPrompt ==
  IF req.method = "POST"
    THEN req.body.kind = "object" /\ TruthyStr(req.body.prompt)
    ELSE TruthyStr(req.queryPrompt) \/ TruthyStr(req.queryQ)

\* the status of the first check that fails, in the order method, server
\* credential, credential present, credential right, upstream credential,
\* prompt; 0 when every check passes
FirstFailure ==
  CASE req.method \notin {"GET", "POST"} -> 405
    [] ~TruthyStr(API_KEY) -> 500
    [] ~TruthyStr(ProvidedApiKey(req)) -> 401
    [] ProvidedApiKey(req) # API_KEY -> 403
    [] ~TruthyStr(GEMINI_API_KEY) -> 500
    [] ~HasPrompt -> 400
    [] OTHER -> 0

\* C4: the checks are applied in the order method (405), server credential
\* (500), credential present (401), credential right (403), upstream
\* credential (500), prompt (400), and for every request and configuration
\* the response is the one of the first check that fails.
C4_FirstFailingCheckAnswers ==
  (Entered /\ upstream.state = "none") =>
    IF FirstFailure = 0 THEN pc = "awaiting"
    ELSE pc = "done" /\ res.status = FirstFailure

\* the request passes authentication and both credentials are configured
Authenticated ==
  /\ req.method \in {"GET", "POST"}
  /\ TruthyStr(API_KEY)
  /\ TruthyStr(GEMINI_API_KEY)
  /\ ProvidedApiKey(req) = API_KEY

\* C5: an authenticated request whose task text is absent or empty (a POST
\* without a body included) is answered 400 with the usage guidance, and the
\* upstream is never invoked.
C5_NoPromptIs400 ==
  (Entered /\ Authenticated /\ ~HasPrompt) =>
    /\ res.status = 400
    /\ "usage" \in DOMAIN res.body
    /\ calls = 0

\* some channel of the request carries the configured credential
SuppliedConfiguredKey ==
  \/ req.xApiKey = API_KEY
  \/ BearerToken(req.authorization) = API_KEY
  \/ req.queryApiKey = API_KEY

\* the response is one of the refusals sent before the upstream call
RefusedBeforeCall ==
  \/ res.status \in {405, 401, 403}
  \/ res.status = 400 /\ res.body.error = "Prompt is required."
  \/ res.status = 500 /\ "success" \notin DOMAIN res.body

\* C10: the upstream is invoked only after method, server credential, caller
\* credential, upstream credential and prompt have all been found good, and no
\* request answered 405, 401, 403, 400 (prompt missing) or a configuration
\* 500 causes an upstream invocation.
C10_UpstreamOnlyAfterChecks ==
  /\ calls > 0 =>
       /\ req.method \in {"GET", "POST"}
       /\ TruthyStr(API_KEY)
       /\ SuppliedConfiguredKey
       /\ TruthyStr(GEMINI_API_KEY)
       /\ HasPrompt
  /\ RefusedBeforeCall => calls = 0

\* a request has reached the upstream call
C10_Witness == calls > 0 /\ pc = "awaiting"

\* C6: if the upstream call raises, the upstream was invoked exactly once for
\* the request, and the response is status 500 with success: false, the error
\* 'Failed to generate response', the failure message under details, and no
\* data object.
C6_FailureIsSurfacedOnce ==
  upstream.state = "rejected" =>
    /\ calls = 1
    /\ pc = "done"
    /\ res.status = 500
    /\ res.body.success = FALSE
    /\ res.body.error = "Failed to generate response"
    /\ res.body.details = upstream.message
    /\ "data" \notin DOMAIN res.body

\* the upstream call of a request has raised
C6_Witness == upstream.state = "rejected" /\ res.status = 500

(***************************************************************************)
(* Properties of the repair.                                               *)
(***************************************************************************)
\* the upstream text is a JSON object that lacks a required field
ReturnedLacking == pc = "done" /\ ReturnedObject /\ \E f \in Required : ~Has(f)

\* C7 as stated: when the upstream object lacks a required field, the
\* response is a success in which every field the object contains is returned
\* unchanged and every field it lacks is replaced by its default, content is
\* the raw text, and the warning names exactly the required fields it lacks.
C7_PresentFieldsUnchanged ==
  ReturnedLacking =>
    /\ Success
    /\ \A f \in FieldNames :
         res.body.data[f] = IF Has(f) THEN Answer.fields[f] ELSE Default[f]
    /\ res.body.data.content = upstream.text
    /\ res.body.metadata.warning = WarningNaming({f \in Required : ~Has(f)})

\* C7 as amended: when the upstream object lacks a required field, the
\* response is a success in which title, summary, timeEstimate and difficulty
\* are returned unchanged when truthy and replaced by their defaults
\* otherwise, steps and tips are returned unchanged when they are arrays and
\* replaced by [] otherwise, content is the raw text, and the warning names
\* exactly the required fields that are absent or falsy.
C7_TruthyFieldsUnchanged ==
  ReturnedLacking =>
    /\ Success
    /\ \A f \in {"title", "summary", "timeEstimate", "difficulty"} :
         res.body.data[f] =
           IF HasTruthy(f) THEN Answer.fields[f] ELSE Default[f]
    /\ \A f \in {"steps", "tips"} :
         res.body.data[f] =
           IF IsArray(Answer.fields[f]) THEN Answer.fields[f] ELSE Default[f]
    /\ res.body.data.content = upstream.text
    /\ res.body.metadata.warning =
         WarningNaming({f \in Required : ~HasTruthy(f)})

\* an object without summary, with an empty title and steps that are a string,
\* sent in a fence, has been answered
C7_Witness ==
  /\ ReturnedLacking
  /\ ~Has("summary")
  /\ Answer.fields.title = JStr("")
  /\ Answer.fields.steps = JStr("do it")
  /\ upstream.text = FencedJson(<<Val(Answer)>>)
  /\ Success

\* x.length of a JSON value
Length(v) == IF IsArray(v) THEN Len(v.a) ELSE Len(v.s)

\* C9 as stated: when the upstream text, fences removed and trimmed, is a
\* JSON object containing title, summary and steps, the response is a success
\* whose data is exactly title, summary and steps as parsed, tips as parsed or
\* [] if absent, timeEstimate as parsed or 'Unknown' if absent, difficulty as
\* parsed or 'unknown' if absent, and whose metadata has stepCount, the number
\* of steps, and neither warning nor parseError.
C9_ContainingRequired ==
  (pc = "done" /\ ReturnedObject /\ \A f \in Required : Has(f)) =>
    /\ Success
    /\ res.body.data =
         [f \in FieldNames |->
            IF Has(f) THEN Answer.fields[f] ELSE Default[f]]
    /\ DOMAIN res.body.metadata = {"timestamp", "model", "stepCount"}
    /\ res.body.metadata.stepCount = Length(Answer.fields.steps)

\* C9 as amended: when the upstream text, fences removed and trimmed, is a
\* JSON object whose title, summary and steps are truthy, the response is a
\* success whose data is exactly title, summary and steps as parsed, and tips,
\* timeEstimate and difficulty as parsed when truthy and [], 'Unknown' and
\* 'unknown' otherwise, and whose metadata has stepCount, the length of
\* steps, and neither warning nor parseError.
C9_TruthyRequired ==
  (pc = "done" /\ ReturnedObject /\ \A f \in Required : HasTruthy(f)) =>
    /\ Success
    /\ res.body.data =
         [f \in FieldNames |->
            IF HasTruthy(f) THEN Answer.fields[f] ELSE Default[f]]
    /\ DOMAIN res.body.metadata = {"timestamp", "model", "stepCount"}
    /\ res.body.metadata.stepCount = Length(Answer.fields.steps)

\* an object with the required fields, no tips and an empty timeEstimate,
\* sent in a fence tagged json, has been answered
C9_Witness ==
  /\ pc = "done"
  /\ ReturnedObject
  /\ \A f \in Required : HasTruthy(f)
  /\ ~Has("tips")
  /\ Answer.fields.timeEstimate = JStr("")
  /\ upstream.text = FencedJson(<<Val(Answer)>>)
  /\ Success

====
